---------------------------- MODULE Spec2Model ----------------------------
(***************************************************************************)
(* A model of usb_hid.py: the gadget lifecycle manager (enable / disable)  *)
(* acting on the configfs gadget tree, and the per-Device state it sets.   *)
(*                                                                         *)
(* The gadget tree is the configfs tree under this.gadget_root.  A         *)
(* directory of configfs carries its attribute files with it (they appear  *)
(* with mkdir and vanish with rmdir); rmdir fails (OSError) on a directory *)
(* that still has a child directory or a link in it, and on a function     *)
(* directory a configuration still links to.  The UDC attribute holds the  *)
(* name of the bound controller, "" when the gadget is not bound.          *)
(*                                                                         *)
(* A call is one atomic action: the module is single-threaded and each     *)
(* handler runs to its return or to the exception that leaves it.  The     *)
(* handler is computed by threading a machine record                       *)
(*     m = [fs, devices, boot_device, path, err, trace]                    *)
(* through its statements in source order; once m.err is set (an exception *)
(* is propagating) the remaining statements do nothing.  trace is the      *)
(* sequence of tree operations the call performed.                         *)
(***************************************************************************)
EXTENDS Integers, Sequences, FiniteSets, TLC

VARIABLES
    fs,           \* the gadget tree under this.gadget_root
    devices,      \* this.devices: names of the appended Device objects
    boot_device,  \* this.boot_device
    path,         \* Device.path of every predefined Device object
    last,         \* the last call: operation, arguments, exception, trace, the call before
    ncalls,       \* number of calls made so far
    device_fds,   \* Device._device_fds: device path -> cached file descriptor
    open_fds,     \* the descriptors os.open returned and os.close has not closed: fd -> path
    last_received,\* Device._last_received_report of every Device object
    hostq,        \* OUT reports the host has sent and nobody has read: node -> reports
    hostlog,      \* every OUT report the host has sent: node -> set of reports
    hostwrites,   \* number of OUT reports the host has sent so far
    io,           \* the last transport call: arguments, path, return value, frame, handle use
    threads       \* the threads of control inside a call: position and locals of each

vars == <<fs, devices, boot_device, path, last, ncalls,
          device_fds, open_fds, last_received, hostq, hostlog, hostwrites, io, threads>>

----------------------------------------------------------------------------
(* Bounds of the model *)

\* longest requested_devices sequence passed to enable
MaxReq == 2
\* number of enable / disable calls made in one run
MaxCalls == 2
\* largest boot_device argument tried (0, 1, 2 are the documented values)
MaxBoot == 3
\* number of calls made in one run of the transport specifications
MaxOps == 4
\* number of OUT reports the host sends in one run
MaxHostWrites == 1

----------------------------------------------------------------------------
(* Descriptor registry: the predefined Device objects *)

GAMEPAD_REPORT_ID == 4
RUMBLE_REPORT_ID == 5

KEYBOARD ==
    [name |-> "KEYBOARD", descriptor |-> "keyboard_desc", report_ids |-> <<1>>,
     in_report_lengths |-> <<8>>, out_report_lengths |-> <<1>>]

MOUSE ==
    [name |-> "MOUSE", descriptor |-> "mouse_desc", report_ids |-> <<2>>,
     in_report_lengths |-> <<4>>, out_report_lengths |-> <<0>>]

CONSUMER_CONTROL ==
    [name |-> "CONSUMER_CONTROL", descriptor |-> "consumer_desc", report_ids |-> <<3>>,
     in_report_lengths |-> <<2>>, out_report_lengths |-> <<0>>]

BOOT_KEYBOARD ==
    [name |-> "BOOT_KEYBOARD", descriptor |-> "boot_keyboard_desc", report_ids |-> <<0>>,
     in_report_lengths |-> <<8>>, out_report_lengths |-> <<1>>]

BOOT_MOUSE ==
    [name |-> "BOOT_MOUSE", descriptor |-> "boot_mouse_desc", report_ids |-> <<0>>,
     in_report_lengths |-> <<4>>, out_report_lengths |-> <<0>>]

GAMEPAD ==
    [name |-> "GAMEPAD", descriptor |-> "gamepad_desc",
     report_ids |-> <<GAMEPAD_REPORT_ID, RUMBLE_REPORT_ID>>,
     in_report_lengths |-> <<10>>, out_report_lengths |-> <<2>>]

DIGITIZER ==
    [name |-> "DIGITIZER", descriptor |-> "digitizer_desc", report_ids |-> <<6>>,
     in_report_lengths |-> <<27>>, out_report_lengths |-> <<0>>]

\* a Device a caller constructs (Device.__init__): two report IDs, the three
\* sequences of equal length
CUSTOM ==
    [name |-> "CUSTOM", descriptor |-> "custom_desc", report_ids |-> <<7, 8>>,
     in_report_lengths |-> <<3, 5>>, out_report_lengths |-> <<1, 2>>]

Registry ==
    {KEYBOARD, MOUSE, CONSUMER_CONTROL, BOOT_KEYBOARD, BOOT_MOUSE, GAMEPAD, DIGITIZER,
     CUSTOM}

DeviceNames == {d.name : d \in Registry}

Profile(n) == CHOOSE d \in Registry : d.name = n

\* Device.__init__: self.path = None
NoPath == <<>>

\* the default of an omitted report_id argument
None == -1

----------------------------------------------------------------------------
(* The machine record and the configfs primitives *)

EmptyFn == [x \in {} |-> 0]

\* no gadget: Path(this.gadget_root) does not exist; links is the set of the
\* functions linked into configs/c.1 and order lists them as they were linked
NoGadget ==
    [root |-> FALSE, attrs |-> EmptyFn,
     strings |-> FALSE, stringvals |-> EmptyFn,
     config |-> FALSE, cfgattrs |-> EmptyFn,
     cfgstrings |-> FALSE, cfgstringvals |-> EmptyFn,
     functions |-> EmptyFn, links |-> {}, order |-> <<>>, UDC |-> ""]

\* an event of the trace: a tree operation, the kind of node, its report ID (-1: none)
Ev(op, node, id) == [op |-> op, node |-> node, id |-> id]

Log(m, e) == [m EXCEPT !.trace = Append(@, e)]

Raise(m, e) == [m EXCEPT !.err = e]

\* the minor number the kernel gives a new hidg function: the smallest one free
FreeMinor(functions) ==
    CHOOSE n \in 0..Cardinality(DOMAIN functions) :
        /\ \A r \in DOMAIN functions : functions[r].dev[2] # n
        /\ \A k \in 0..(n - 1) : \E r \in DOMAIN functions : functions[r].dev[2] = k

\* a function directory right after mkdir: its attributes hold the kernel's defaults,
\* and dev reads "major:minor"
NewFunction(functions) ==
    [protocol |-> 0, report_length |-> 0, subclass |-> 0, report_desc |-> "",
     dev |-> <<"major", FreeMinor(functions)>>]

\* mkdir(parents=True, exist_ok=True) of a directory under the gadget root creates
\* the root when it is missing
MkRoot(m) ==
    IF m.fs.root THEN m
    ELSE Log([m EXCEPT !.fs.root = TRUE], Ev("mkdir", "root", -1))

----------------------------------------------------------------------------
(* disable(), lines 607-646 *)

\* Unbind as it would be without the except FileNotFoundError of lines 617-618
Unbind_NoExcept(m) ==
    IF m.err # "none" THEN m
    ELSE IF ~m.fs.root THEN Raise(m, "FileNotFoundError")
    ELSE Log([m EXCEPT !.fs.UDC = ""], Ev("unbind", "UDC", -1))

\* lines 615-618: write "" to UDC; a missing file (no gadget root) is passed over
Unbind(m) ==
    IF m.err # "none" \/ ~m.fs.root THEN m
    ELSE Log([m EXCEPT !.fs.UDC = ""], Ev("unbind", "UDC", -1))

RECURSIVE UnlinkAll(_, _)
\* unlink every link in the set ids
UnlinkAll(m, ids) ==
    IF ids = {} THEN m
    ELSE LET r == CHOOSE x \in ids : \A y \in ids : x <= y
         IN UnlinkAll(Log([m EXCEPT !.fs.links = @ \ {r},
                                    !.fs.order = SelectSeq(@, LAMBDA x : x # r)],
                          Ev("unlink", "link", r)),
                      ids \ {r})

\* lines 620-621: for symlink in glob("configs/**/hid.usb*"): symlink.unlink()
RemoveLinks(m) ==
    IF m.err # "none" THEN m ELSE UnlinkAll(m, m.fs.links)

\* lines 623-629: the string directories of the configurations
\* (configs/*/strings/*/* names attribute files only; configs/*/strings/* is the
\* locale directory, which holds attribute files only)
RemoveConfigStrings(m) ==
    IF m.err # "none" \/ ~m.fs.cfgstrings THEN m
    ELSE Log([m EXCEPT !.fs.cfgstrings = FALSE, !.fs.cfgstringvals = EmptyFn],
             Ev("rmdir", "cfgstrings", -1))

\* lines 630-632: rmdir of configs/c.1, refused while it holds a link or a
\* locale directory
RemoveConfigs(m) ==
    IF m.err # "none" \/ ~m.fs.config THEN m
    ELSE IF m.fs.links # {} \/ m.fs.cfgstrings THEN Raise(m, "OSError")
    ELSE Log([m EXCEPT !.fs.config = FALSE, !.fs.cfgattrs = EmptyFn],
             Ev("rmdir", "config", -1))

RECURSIVE RmdirFunctions(_, _)
\* rmdir of every function directory in ids; refused for one that is still linked
RmdirFunctions(m, ids) ==
    IF ids = {} \/ m.err # "none" THEN m
    ELSE LET r == CHOOSE x \in ids : \A y \in ids : x <= y
         IN IF r \in m.fs.links THEN Raise(m, "OSError")
            ELSE RmdirFunctions(
                     Log([m EXCEPT !.fs.functions =
                              [x \in (DOMAIN @) \ {r} |-> @[x]]],
                         Ev("rmdir", "function", r)),
                     ids \ {r})

\* lines 633-635: for function_dir in rglob("functions/*"): rmdir
RemoveFunctions(m) ==
    IF m.err # "none" THEN m ELSE RmdirFunctions(m, DOMAIN m.fs.functions)

\* lines 636-641: rglob("strings/*/*") names attribute files only; rglob("strings/*")
\* names every locale directory still there, the gadget's and a configuration's
RemoveGadgetStrings(m) ==
    LET m1 == RemoveConfigStrings(m)
    IN IF m1.err # "none" \/ ~m1.fs.strings THEN m1
       ELSE Log([m1 EXCEPT !.fs.strings = FALSE, !.fs.stringvals = EmptyFn],
                Ev("rmdir", "strings", -1))

\* lines 642-645: rmdir of the gadget root; a missing root is passed over, a root
\* that still holds a directory is an OSError
RemoveRoot(m) ==
    IF m.err # "none" \/ ~m.fs.root THEN m
    ELSE IF m.fs.config \/ m.fs.strings \/ DOMAIN m.fs.functions # {}
         THEN Raise(m, "OSError")
    ELSE Log([m EXCEPT !.fs = NoGadget], Ev("rmdir", "root", -1))

\* ResetDevices as it would be had disable() forgotten to empty this.devices
ResetDevices_Forgotten(m) == m

\* line 646: this.devices = []
ResetDevices(m) ==
    IF m.err # "none" THEN m ELSE [m EXCEPT !.devices = <<>>]

\* disable as it would be with the function directories removed before the
\* configuration directories
disable_FunctionsBeforeConfigs(m) ==
    ResetDevices(RemoveRoot(RemoveGadgetStrings(RemoveConfigs(
        RemoveFunctions(RemoveConfigStrings(RemoveLinks(Unbind(m))))))))

disable(m) ==
    ResetDevices(RemoveRoot(RemoveGadgetStrings(RemoveFunctions(
        RemoveConfigs(RemoveConfigStrings(RemoveLinks(Unbind(m))))))))

----------------------------------------------------------------------------
(* Device.get_device_path, lines 99-113 *)

\* report_id or self.report_ids[0]
OrFirst(device, report_id) ==
    IF report_id = None \/ report_id = 0 THEN device.report_ids[1] ELSE report_id

\* reads functions/hid.usb<id>/dev ("major:minor"), keeps what follows the colon
\* and appends it to "/dev/hidg"; a missing function directory is FileNotFoundError
get_device_path(tree, device, report_id) ==
    LET rid == OrFirst(device, report_id)
    IN IF rid \in DOMAIN tree.functions
       THEN [err |-> "none", path |-> <<"/dev/hidg", tree.functions[rid].dev[2]>>]
       ELSE [err |-> "FileNotFoundError", path |-> NoPath]

----------------------------------------------------------------------------
(* enable(requested_devices, boot_device), lines 652-894 *)

GadgetAttrs ==
    [bcdDevice |-> 1, bcdUSB |-> 512, bDeviceClass |-> 0, bDeviceProtocol |-> 0,
     bDeviceSubClass |-> 0, bMaxPacketSize0 |-> 8, idProduct |-> 260, idVendor |-> 7531]

GadgetStrings ==
    [serialnumber |-> "213374badcafe", manufacturer |-> "quaxalber",
     product |-> "USB Combo Device"]

ConfigAttrs == [MaxPower |-> 250, bmAttributes |-> 128]

ConfigStrings == [configuration |-> "Config 1: ECM network"]

\* lines 701-704: the boot_device override of the requested devices
EffectiveDevices(requested, boot) ==
    IF boot = 2 THEN <<BOOT_MOUSE.name>>
    ELSE IF boot = 1 THEN <<BOOT_KEYBOARD.name>>
    ELSE requested

\* lines 741-776: the gadget root, its attributes and its strings
CreateGadget(m) ==
    IF m.err # "none" THEN m
    ELSE LET m1 == MkRoot(m)
         IN [m1 EXCEPT !.fs.attrs = GadgetAttrs, !.fs.strings = TRUE,
                       !.fs.stringvals = GadgetStrings]

\* lines 810-818: the configuration c.1, its strings and attributes, made anew for
\* every device (exist_ok), and this.devices.append(device)
ConfigureDevice(m, device) ==
    IF m.err # "none" THEN m
    ELSE LET m1 == MkRoot(m)
             m2 == IF m1.fs.config THEN m1
                   ELSE Log([m1 EXCEPT !.fs.config = TRUE], Ev("mkdir", "config", -1))
         IN [m2 EXCEPT !.fs.cfgstrings = TRUE, !.fs.cfgstringvals = ConfigStrings,
                       !.fs.cfgattrs = ConfigAttrs,
                       !.devices = Append(@, device.name)]

\* lines 870-875: the link from the configuration to the function; only
\* FileNotFoundError (no configuration directory) is passed over
LinkFunction(m, rid) ==
    IF m.err # "none" \/ ~m.fs.config THEN m
    ELSE IF rid \in m.fs.links THEN Raise(m, "FileExistsError")
    ELSE Log([m EXCEPT !.fs.links = @ \cup {rid}, !.fs.order = Append(@, rid)],
             Ev("symlink", "link", rid))

\* lines 847-854: the attributes of a new function; in_report_lengths is indexed
\* by the index of the report ID
WriteFunction(m, device, i) ==
    LET rid == device.report_ids[i]
        m1 == [m EXCEPT !.fs.functions[rid].protocol = rid]
    IN IF i > Len(device.in_report_lengths) THEN Raise(m1, "IndexError")
       ELSE [m1 EXCEPT !.fs.functions[rid].report_length = device.in_report_lengths[i],
                       !.fs.functions[rid].subclass = 1,
                       !.fs.functions[rid].report_desc = device.descriptor]

\* lines 842-875: one pass of the loop over the report IDs of a device
CreateFunction(m, device, i) ==
    LET rid == device.report_ids[i]
    IN IF m.err # "none" THEN m
       ELSE IF rid \in DOMAIN m.fs.functions THEN m
       ELSE LET fns == m.fs.functions
                m1 == Log([m EXCEPT !.fs.functions =
                               [x \in (DOMAIN fns) \cup {rid} |->
                                   IF x = rid THEN NewFunction(fns) ELSE fns[x]]],
                          Ev("mkdir", "function", rid))
            IN LinkFunction(WriteFunction(m1, device, i), rid)

RECURSIVE CreateFunctions(_, _, _)
\* line 841: for report_index, report_id in enumerate(device.report_ids)
CreateFunctions(m, device, i) ==
    IF i > Len(device.report_ids) \/ m.err # "none" THEN m
    ELSE CreateFunctions(CreateFunction(m, device, i), device, i + 1)

RECURSIVE BuildDevices(_, _, _)
\* line 809: for device in requested_devices
BuildDevices(m, devs, k) ==
    IF k > Len(devs) \/ m.err # "none" THEN m
    ELSE BuildDevices(
             CreateFunctions(ConfigureDevice(m, Profile(devs[k])), Profile(devs[k]), 1),
             devs, k + 1)

\* BindController as it would be with a rollback: the tree is torn down when no
\* controller is listed
BindController_Rollback(m, listing) ==
    IF m.err # "none" THEN m
    ELSE IF listing = <<>> THEN Raise(disable(m), "StopIteration")
    ELSE Log([m EXCEPT !.fs.UDC = listing[1]], Ev("bind", "UDC", -1))

\* lines 890-891: bind to the first controller listed in /sys/class/udc; next() of
\* an empty listing raises StopIteration
BindController(m, listing) ==
    IF m.err # "none" THEN m
    ELSE IF listing = <<>> THEN Raise(m, "StopIteration")
    ELSE Log([m EXCEPT !.fs.UDC = listing[1]], Ev("bind", "UDC", -1))

RECURSIVE ResolvePaths(_, _, _)
\* lines 893-894: device.path = device.get_device_path()
ResolvePaths(m, devs, k) ==
    IF k > Len(devs) \/ m.err # "none" THEN m
    ELSE LET r == get_device_path(m.fs, Profile(devs[k]), None)
         IN IF r.err # "none" THEN Raise(m, r.err)
            ELSE ResolvePaths(
                     Log([m EXCEPT !.path[devs[k]] = r.path],
                         Ev("path", devs[k], Profile(devs[k]).report_ids[1])),
                     devs, k + 1)

\* enable as it would be without the early return for an empty list (lines 697-699)
enable_NoEmptyCheck(m, requested_devices, boot, listing) ==
    LET m0 == [m EXCEPT !.boot_device = boot]
        devs == EffectiveDevices(requested_devices, boot)
    IN ResolvePaths(
           BindController(BuildDevices(CreateGadget(m0), devs, 1), listing),
           devs, 1)

\* enable as it would be with the gadget bound before its functions are made
enable_BindFirst(m, requested_devices, boot, listing) ==
    LET m0 == [m EXCEPT !.boot_device = boot]
    IN IF Len(requested_devices) = 0 THEN disable(m0)
       ELSE LET devs == EffectiveDevices(requested_devices, boot)
            IN ResolvePaths(
                   BuildDevices(BindController(CreateGadget(m0), listing), devs, 1),
                   devs, 1)

enable(m, requested_devices, boot, listing) ==
    LET m0 == [m EXCEPT !.boot_device = boot]
    IN IF Len(requested_devices) = 0 THEN disable(m0)
       ELSE LET devs == EffectiveDevices(requested_devices, boot)
            IN ResolvePaths(
                   BindController(BuildDevices(CreateGadget(m0), devs, 1), listing),
                   devs, 1)

----------------------------------------------------------------------------
(* Report transport: the Device methods, lines 86-185 *)

\* a Python value that may be None: None itself, or a bytes object
PyNone == [none |-> TRUE, data |-> <<>>]

Bytes(b) == [none |-> FALSE, data |-> b]

\* the minors of the device nodes /dev/hidg<minor> there are: one for every
\* function linked into the configuration of a bound gadget
Nodes(tree) ==
    IF tree.UDC = "" THEN {}
    ELSE {tree.functions[r].dev[2] : r \in tree.links \cap DOMAIN tree.functions}

\* open() / os.open() of a device path finds its node
NodeExists(tree, p) == p # NoPath /\ p[2] \in Nodes(tree)

\* the reports waiting on a node
Pending(q, n) == IF n \in DOMAIN q THEN q[n] ELSE <<>>

\* the elements of s
Range(s) == {s[i] : i \in DOMAIN s}

\* the first n elements of s
Take(s, n) == SubSeq(s, 1, IF n < Len(s) THEN n ELSE Len(s))

\* the lowest descriptor number free, which os.open returns
FreeFd(open) ==
    CHOOSE n \in 0..Cardinality(DOMAIN open) :
        n \notin DOMAIN open /\ \A k \in 0..(n - 1) : k \in DOMAIN open

\* the record of a transport call, before it has done anything
NoIO ==
    [dev |-> "", report_id |-> None, report |-> <<>>, rid |-> None, path |-> NoPath,
     ret |-> PyNone, frame |-> <<>>, outcome |-> "none", wrote |-> FALSE,
     opened |-> FALSE, reused |-> FALSE, closed |-> FALSE, fd |-> None]

\* the transport state a call starts from
Transport ==
    [device_fds |-> device_fds, open_fds |-> open_fds, last_received |-> last_received,
     hostq |-> hostq, err |-> "none", io |-> NoIO]

\* the framing with the prefix byte on every report, report ID 0 included
Frame_AlwaysPrefixed(report_id, report) ==
    IF report_id >= 0 THEN <<report_id>> \o report ELSE report

\* lines 123-124 and 170-171: one byte holding the report ID goes before the
\* report when the report ID is positive (to_bytes(1, "big") of an ID below 256)
Frame(report_id, report) ==
    IF report_id > 0 THEN <<report_id>> \o report ELSE report

\* _get_nonblocking_fd opening a descriptor on every call
get_nonblocking_fd_AlwaysOpen(x, tree, p) ==
    IF ~NodeExists(tree, p) THEN Raise(x, "FileNotFoundError")
    ELSE LET fd == FreeFd(x.open_fds)
         IN [x EXCEPT
               !.open_fds = [k \in (DOMAIN @) \cup {fd} |-> IF k = fd THEN p ELSE @[k]],
               !.device_fds = [k \in (DOMAIN @) \cup {p} |-> IF k = p THEN fd ELSE @[k]],
               !.io.fd = fd, !.io.opened = TRUE]

\* lines 127-140: the cached descriptor of the path, or a new one from os.open,
\* then cached; os.open of a path with no node is FileNotFoundError
get_nonblocking_fd(x, tree, p) ==
    IF p \in DOMAIN x.device_fds
    THEN [x EXCEPT !.io.fd = x.device_fds[p], !.io.reused = TRUE]
    ELSE IF ~NodeExists(tree, p) THEN Raise(x, "FileNotFoundError")
    ELSE LET fd == FreeFd(x.open_fds)
         IN [x EXCEPT
               !.open_fds = [k \in (DOMAIN @) \cup {fd} |-> IF k = fd THEN p ELSE @[k]],
               !.device_fds = [k \in (DOMAIN @) \cup {p} |-> IF k = p THEN fd ELSE @[k]],
               !.io.fd = fd, !.io.opened = TRUE]

\* lines 142-153: close the cached descriptor of the path, if there is one, and
\* drop the cache entry
close_fd(x, p) ==
    IF p \in DOMAIN x.device_fds
    THEN LET fd == x.device_fds[p]
         IN [x EXCEPT
               !.open_fds = [k \in (DOMAIN @) \ {fd} |-> @[k]],
               !.device_fds = [k \in (DOMAIN @) \ {p} |-> @[k]],
               !.io.closed = TRUE]
    ELSE x

\* lines 115-125: outcome is what the write does: "ok" or "EIO"
send_report(x, tree, device, report, report_id, outcome) ==
    LET rid == OrFirst(device, report_id)
        r == get_device_path(tree, device, rid)
        x0 == [x EXCEPT !.io.dev = device.name, !.io.report_id = report_id,
                        !.io.report = report, !.io.rid = rid, !.io.path = r.path]
    IN IF r.err # "none" THEN Raise(x0, r.err)
       ELSE IF ~NodeExists(tree, r.path) THEN Raise(x0, "FileNotFoundError")
       ELSE LET x1 == [x0 EXCEPT !.io.frame = Frame(rid, report),
                                 !.io.outcome = outcome]
            IN IF outcome = "ok" THEN [x1 EXCEPT !.io.wrote = TRUE]
               ELSE Raise(x1, "OSError")

\* send_report_nonblocking leaving the descriptor cached when the write fails
send_report_nonblocking_NoEvict(x, tree, device, report, report_id, outcome) ==
    LET rid == OrFirst(device, report_id)
        r == get_device_path(tree, device, rid)
        x0 == [x EXCEPT !.io.dev = device.name, !.io.report_id = report_id,
                        !.io.report = report, !.io.rid = rid, !.io.path = r.path]
    IN IF r.err # "none" THEN Raise(x0, r.err)
       ELSE LET x1 == get_nonblocking_fd(x0, tree, r.path)
                x2 == [x1 EXCEPT !.io.frame = Frame(rid, report),
                                 !.io.outcome = outcome]
            IN IF x1.err # "none" THEN close_fd(x1, r.path)
               ELSE IF outcome = "ok" THEN [x2 EXCEPT !.io.wrote = TRUE]
               ELSE IF outcome = "EAGAIN" THEN Raise(x2, "BlockingIOError")
               ELSE Raise(x2, "OSError")

\* send_report_nonblocking closing the descriptor when the write would block
send_report_nonblocking_CloseOnAgain(x, tree, device, report, report_id, outcome) ==
    LET rid == OrFirst(device, report_id)
        r == get_device_path(tree, device, rid)
        x0 == [x EXCEPT !.io.dev = device.name, !.io.report_id = report_id,
                        !.io.report = report, !.io.rid = rid, !.io.path = r.path]
    IN IF r.err # "none" THEN Raise(x0, r.err)
       ELSE LET x1 == get_nonblocking_fd(x0, tree, r.path)
                x2 == [x1 EXCEPT !.io.frame = Frame(rid, report),
                                 !.io.outcome = outcome]
            IN IF x1.err # "none" THEN close_fd(x1, r.path)
               ELSE IF outcome = "ok" THEN [x2 EXCEPT !.io.wrote = TRUE]
               ELSE IF outcome = "EAGAIN" THEN Raise(close_fd(x2, r.path), "BlockingIOError")
               ELSE Raise(close_fd(x2, r.path), "OSError")

\* lines 155-180: outcome is what os.write does: "ok", "EAGAIN" (errno 11) or "EIO"
send_report_nonblocking(x, tree, device, report, report_id, outcome) ==
    LET rid == OrFirst(device, report_id)
        r == get_device_path(tree, device, rid)
        x0 == [x EXCEPT !.io.dev = device.name, !.io.report_id = report_id,
                        !.io.report = report, !.io.rid = rid, !.io.path = r.path]
    IN IF r.err # "none" THEN Raise(x0, r.err)
       ELSE LET x1 == get_nonblocking_fd(x0, tree, r.path)
                x2 == [x1 EXCEPT !.io.frame = Frame(rid, report),
                                 !.io.outcome = outcome]
            IN IF x1.err # "none" THEN close_fd(x1, r.path)
               ELSE IF outcome = "ok" THEN [x2 EXCEPT !.io.wrote = TRUE]
               ELSE IF outcome = "EAGAIN" THEN Raise(x2, "BlockingIOError")
               ELSE Raise(close_fd(x2, r.path), "OSError")

RECURSIVE CloseAll(_, _)
\* _close_fd for every path of the set
CloseAll(x, paths) ==
    IF paths = {} THEN x
    ELSE LET p == CHOOSE q \in paths : TRUE
         IN CloseAll(close_fd(x, p), paths \ {p})

\* lines 182-185, __del__: for device_path in list(self._device_fds.keys()):
\* self._close_fd(device_path); _device_fds is the one dict of the class
del(x) == CloseAll(x, DOMAIN x.device_fds)

\* the buffered reader fills a request for n bytes from the reports waiting: each
\* raw read takes one whole report, and it stops at n bytes or when none is left
RECURSIVE ReadBytes(_, _)
ReadBytes(waiting, n) ==
    IF waiting = <<>> \/ n <= 0 THEN <<>>
    ELSE Take(waiting[1], n) \o ReadBytes(Tail(waiting), n - Len(waiting[1]))

\* the reports still waiting after that read
RECURSIVE LeftWaiting(_, _)
LeftWaiting(waiting, n) ==
    IF waiting = <<>> \/ n <= 0 THEN waiting
    ELSE LeftWaiting(Tail(waiting), n - Len(waiting[1]))

\* line 94: fd.read(self.out_report_lengths[0]) on the non-blocking node: a read of
\* zero bytes gives b"" at once, a read with nothing waiting gives None
ReadReport(device, waiting) ==
    LET n == device.out_report_lengths[1]
    IN IF n = 0 THEN Bytes(<<>>)
       ELSE IF waiting = <<>> THEN PyNone
       ELSE Bytes(ReadBytes(waiting, n))

\* lines 86-97
get_last_received_report(x, tree, device, report_id) ==
    LET r == get_device_path(tree, device, OrFirst(device, report_id))
        x0 == [x EXCEPT !.io.dev = device.name, !.io.report_id = report_id,
                        !.io.rid = OrFirst(device, report_id), !.io.path = r.path]
    IN IF r.err # "none" THEN Raise(x0, r.err)
       ELSE IF ~NodeExists(tree, r.path) THEN Raise(x0, "FileNotFoundError")
       ELSE LET node == r.path[2]
                waiting == Pending(x0.hostq, node)
                report == ReadReport(device, waiting)
                left == LeftWaiting(waiting, device.out_report_lengths[1])
                x1 == IF left # waiting
                      THEN [x0 EXCEPT !.hostq =
                               [k \in (DOMAIN @) \cup {node} |->
                                   IF k = node THEN left ELSE @[k]]]
                      ELSE x0
                x2 == IF report.none THEN x1
                      ELSE [x1 EXCEPT !.last_received[device.name] = report]
            IN [x2 EXCEPT !.io.ret = x2.last_received[device.name]]

----------------------------------------------------------------------------
(* The calls a program makes, one action each *)

\* the sequences over S of length at most n
SeqsUpTo(S, n) == UNION {[1..k -> S] : k \in 0..n}

\* the Device objects a caller passes to enable; the two boot devices come in
\* through boot_device
Catalog == {KEYBOARD.name, MOUSE.name, GAMEPAD.name}

\* the requested_devices arguments tried
RequestLists == SeqsUpTo(Catalog, MaxReq)

\* the boot_device arguments tried
BootValues == 0..MaxBoot

\* what /sys/class/udc lists when enable reaches line 890, in listing order
Listings == {<<>>, <<"udc0", "udc1">>}

\* the call before any call
NoCall == [op |-> "none", err |-> "none"]

\* the threads of control of the process
Threads == {"t1", "t2"}

\* a thread that is in no call: pc is its position, err the outcome of its last
\* call, raced whether a call of it ever ran while another thread was in a call;
\* loop and todo are the loop of disable it is in and the nodes that loop has
\* listed and not handled; path and fd are the locals of send_report_nonblocking
IdleThread ==
    [pc |-> "idle", err |-> "none", raced |-> FALSE,
     loop |-> 0, todo |-> <<>>, path |-> NoPath, fd |-> None]

\* the machine a call starts from
Machine ==
    [fs |-> fs, devices |-> devices, boot_device |-> boot_device, path |-> path,
     err |-> "none", trace |-> <<>>]

\* the state a call leaves, and the record of the call
Returns(m, op, devs, boot, listing) ==
    /\ fs' = m.fs
    /\ devices' = m.devices
    /\ boot_device' = m.boot_device
    /\ path' = m.path
    /\ last' = [op |-> op, devs |-> devs, boot |-> boot, listing |-> listing,
                err |-> m.err, trace |-> m.trace,
                prev |-> [op |-> last.op, err |-> last.err]]
    /\ ncalls' = ncalls + 1
    /\ hostq' = [n \in (DOMAIN hostq) \cap Nodes(m.fs) |-> hostq[n]]
    /\ hostlog' = [n \in (DOMAIN hostlog) \cap Nodes(m.fs) |-> hostlog[n]]
    /\ io' = NoIO
    /\ UNCHANGED <<device_fds, open_fds, last_received, hostwrites, threads>>

Init ==
    /\ fs = NoGadget
    /\ devices = <<>>
    /\ boot_device = 0
    /\ path = [n \in DeviceNames |-> NoPath]
    /\ last = [op |-> "none", devs |-> <<>>, boot |-> 0, listing |-> <<>>,
               err |-> "none", trace |-> <<>>,
               prev |-> NoCall]
    /\ ncalls = 0
    /\ device_fds = EmptyFn
    /\ open_fds = EmptyFn
    /\ last_received = [n \in DeviceNames |-> PyNone]
    /\ hostq = EmptyFn
    /\ hostlog = EmptyFn
    /\ hostwrites = 0
    /\ io = NoIO
    /\ threads = [t \in Threads |-> IdleThread]

Enable ==
    /\ ncalls < MaxCalls
    /\ \E req \in RequestLists, boot \in BootValues, listing \in Listings :
           Returns(enable(Machine, req, boot, listing), "enable", req, boot, listing)

Disable ==
    /\ ncalls < MaxCalls
    /\ Returns(disable(Machine), "disable", <<>>, 0, <<>>)

Next == Enable \/ Disable

Spec == Init /\ [][Next]_vars

\* the lists of distinct devices a caller passes when it enables boot devices itself
BootRequests ==
    {r \in SeqsUpTo({BOOT_KEYBOARD.name, BOOT_MOUSE.name, KEYBOARD.name}, MaxReq) :
        \A i, j \in DOMAIN r : i # j => r[i] # r[j]}

BootEnable ==
    /\ ncalls < MaxCalls
    /\ \E req \in BootRequests, listing \in Listings :
           Returns(enable(Machine, req, 0, listing), "enable", req, 0, listing)

BootNext == BootEnable \/ Disable

SpecBoot == Init /\ [][BootNext]_vars

----------------------------------------------------------------------------
(* The transport calls a program makes, and the host's writes *)

\* the state a transport call leaves, and the record of the call
IOReturns(x, op) ==
    /\ device_fds' = x.device_fds
    /\ open_fds' = x.open_fds
    /\ last_received' = x.last_received
    /\ hostq' = x.hostq
    /\ io' = x.io
    /\ last' = [op |-> op, devs |-> <<>>, boot |-> 0, listing |-> <<>>,
                err |-> x.err, trace |-> <<>>,
                prev |-> [op |-> last.op, err |-> last.err]]
    /\ ncalls' = ncalls + 1
    /\ UNCHANGED <<fs, devices, boot_device, path, hostlog, hostwrites, threads>>

\* the listing of a machine with a controller
Controller == <<"udc0", "udc1">>

\* the Device objects of this.devices: a program sends and receives on the devices
\* it has enabled
Enabled == {Profile(devices[k]) : k \in DOMAIN devices}

\* the report_id arguments a caller passes for a device
ReportIdArgs(device) == {None} \cup Range(device.report_ids)

\* the reports a caller sends
Payloads == {<<170>>, <<170, 187>>}

\* what a write to the node does
WriteOutcomes == {"ok", "EAGAIN", "EIO"}

\* the rid-th function's node takes OUT reports of the length the device declares
\* for that report ID, none when it declares no length for it
OutLength(device, i) ==
    IF i \in DOMAIN device.out_report_lengths THEN device.out_report_lengths[i] ELSE 0

\* the OUT reports of a length the host sends
HostReports(len) == {[j \in 1..len |-> v + j - 1] : v \in {1, 5}}

\* the enable calls of a program that sends reports
SendEnable ==
    /\ ncalls < MaxOps
    /\ \E req \in {<<"CONSUMER_CONTROL">>}, boot \in {0, 1} :
           Returns(enable(Machine, req, boot, Controller), "enable", req, boot, Controller)

\* the enable calls of a program that receives reports
RecvEnable ==
    /\ ncalls < MaxOps
    /\ \E req \in {<<"KEYBOARD">>, <<"CONSUMER_CONTROL">>, <<"CUSTOM">>} :
           Returns(enable(Machine, req, 0, Controller), "enable", req, 0, Controller)

\* the enable calls of a program that asks for device paths
PathEnable ==
    /\ ncalls < MaxOps
    /\ \E req \in {<<"KEYBOARD">>, <<"CUSTOM">>}, listing \in Listings :
           Returns(enable(Machine, req, 0, listing), "enable", req, 0, listing)

IODisable ==
    /\ ncalls < MaxOps
    /\ Returns(disable(Machine), "disable", <<>>, 0, <<>>)

SendReport ==
    /\ ncalls < MaxOps
    /\ \E device \in Enabled, report \in Payloads :
         \E report_id \in ReportIdArgs(device), outcome \in WriteOutcomes \ {"EAGAIN"} :
           IOReturns(send_report(Transport, fs, device, report, report_id, outcome),
                     "send_report")

SendReportNonblocking ==
    /\ ncalls < MaxOps
    /\ \E device \in Enabled, report \in Payloads :
         \E report_id \in ReportIdArgs(device), outcome \in WriteOutcomes :
           IOReturns(send_report_nonblocking(Transport, fs, device, report, report_id,
                                             outcome),
                     "send_report_nonblocking")

GetLastReceivedReport ==
    /\ ncalls < MaxOps
    /\ \E device \in Enabled :
         \E report_id \in ReportIdArgs(device) :
           IOReturns(get_last_received_report(Transport, fs, device, report_id),
                     "get_last_received_report")

GetDevicePath ==
    /\ ncalls < MaxOps
    /\ \E device \in {KEYBOARD, CUSTOM} :
         \E report_id \in ReportIdArgs(device) :
           LET r == get_device_path(fs, device, report_id)
               x == [Transport EXCEPT !.io.dev = device.name, !.io.report_id = report_id,
                                      !.io.rid = OrFirst(device, report_id),
                                      !.io.path = r.path, !.err = r.err]
           IN IOReturns(x, "get_device_path")

\* the host sends an OUT report to a node of the bound gadget
HostWrite ==
    /\ hostwrites < MaxHostWrites
    /\ \E device \in Enabled :
         \E i \in DOMAIN device.report_ids :
         \E b \in HostReports(OutLength(device, i)) :
           LET r == get_device_path(fs, device, device.report_ids[i])
               node == r.path[2]
           IN /\ b # <<>>
              /\ r.err = "none" /\ NodeExists(fs, r.path)
              /\ hostq' = [k \in (DOMAIN hostq) \cup {node} |->
                              IF k = node THEN Append(Pending(hostq, node), b)
                              ELSE hostq[k]]
              /\ hostlog' = [k \in (DOMAIN hostlog) \cup {node} |->
                                IF k = node
                                THEN (IF node \in DOMAIN hostlog THEN hostlog[node] ELSE {})
                                     \cup {b}
                                ELSE hostlog[k]]
              /\ hostwrites' = hostwrites + 1
              /\ io' = [NoIO EXCEPT !.dev = device.name, !.rid = device.report_ids[i],
                                    !.path = r.path, !.report = b]
              /\ last' = [op |-> "host_write", devs |-> <<>>, boot |-> 0, listing |-> <<>>,
                          err |-> "none", trace |-> <<>>,
                          prev |-> [op |-> last.op, err |-> last.err]]
              /\ UNCHANGED <<fs, devices, boot_device, path, ncalls,
                             device_fds, open_fds, last_received, threads>>

\* a Device object the caller constructed is finalized
Finalize ==
    /\ ncalls < MaxOps
    /\ \E device \in {CUSTOM} :
           IOReturns([del(Transport) EXCEPT !.io.dev = device.name], "__del__")

\* the ways a process ends
Terminations == {"return", "sys.exit", "exception", "signal", "os._exit"}

\* line 649, atexit.register(disable): the interpreter runs the registered functions
\* when it shuts down, not when a signal kills the process or os._exit ends it
AtexitRuns(how) == how \in {"return", "sys.exit", "exception"}

\* the process has ended
Exited == last.op \in Terminations

ProcEnable ==
    /\ ~Exited /\ ncalls < MaxOps
    /\ \E req \in SeqsUpTo({KEYBOARD.name, MOUSE.name}, MaxReq), listing \in Listings :
           Returns(enable(Machine, req, 0, listing), "enable", req, 0, listing)

ProcDisable ==
    /\ ~Exited /\ ncalls < MaxOps
    /\ Returns(disable(Machine), "disable", <<>>, 0, <<>>)

\* the process ends, at any time
ProcExit ==
    /\ ~Exited
    /\ \E how \in Terminations :
           Returns(IF AtexitRuns(how) THEN disable(Machine) ELSE Machine,
                   how, <<>>, 0, <<>>)

ExitNext == ProcEnable \/ ProcDisable \/ ProcExit

SpecExit == Init /\ [][ExitNext]_vars

OwnNext == SendEnable \/ IODisable \/ SendReportNonblocking \/ Finalize

SpecOwn == Init /\ [][OwnNext]_vars

SendNext == SendEnable \/ IODisable \/ SendReport \/ SendReportNonblocking

SpecSend == Init /\ [][SendNext]_vars

RecvNext == RecvEnable \/ IODisable \/ GetLastReceivedReport \/ HostWrite

SpecRecv == Init /\ [][RecvNext]_vars

PathNext == PathEnable \/ IODisable \/ GetDevicePath

SpecPath == Init /\ [][PathNext]_vars

----------------------------------------------------------------------------
(* Calls made by two threads with nothing serializing them: every step is one
   system call or one access to a shared dict; disable, lines 615-646 *)

\* a node of the tree: its kind and, for a link or a function, its report ID
Node(kind, id) == [kind |-> kind, id |-> id]

RECURSIVE SortedSeq(_)
\* the elements of a set of numbers, ascending
SortedSeq(S) ==
    IF S = {} THEN <<>>
    ELSE LET x == CHOOSE a \in S : \A b \in S : a <= b
         IN <<x>> \o SortedSeq(S \ {x})

\* the nodes of one kind for the report IDs of S
NodesOf(kind, S) == [i \in 1..Cardinality(S) |-> Node(kind, SortedSeq(S)[i])]

\* the loops of disable that find a node to remove: lines 620, 627, 630, 633 and 639
\* (those of lines 623 and 636 name attribute files only, never a directory)
Loops == <<"links", "cfgstrings", "configs", "functions", "strings">>

\* what the glob of a loop lists
Listed(tree, loop) ==
    CASE Loops[loop] = "links" -> NodesOf("link", tree.links)
      [] Loops[loop] = "cfgstrings" ->
            IF tree.cfgstrings THEN <<Node("cfgstrings", -1)>> ELSE <<>>
      [] Loops[loop] = "configs" ->
            IF tree.config THEN <<Node("config", -1)>> ELSE <<>>
      [] Loops[loop] = "functions" -> NodesOf("function", DOMAIN tree.functions)
      [] Loops[loop] = "strings" ->
            (IF tree.cfgstrings THEN <<Node("cfgstrings", -1)>> ELSE <<>>)
            \o (IF tree.strings THEN <<Node("strings", -1)>> ELSE <<>>)

\* is_dir() of a listed directory
Present(tree, node) ==
    CASE node.kind = "link" -> node.id \in tree.links
      [] node.kind = "cfgstrings" -> tree.cfgstrings
      [] node.kind = "config" -> tree.config
      [] node.kind = "function" -> node.id \in DOMAIN tree.functions
      [] node.kind = "strings" -> tree.strings

\* unlink() or rmdir() of a listed node: FileNotFoundError when it is not there
RemoveNode(m, node) ==
    IF ~Present(m.fs, node) THEN Raise(m, "FileNotFoundError")
    ELSE CASE node.kind = "link" -> UnlinkAll(m, {node.id})
           [] node.kind = "cfgstrings" -> RemoveConfigStrings(m)
           [] node.kind = "config" -> RemoveConfigs(m)
           [] node.kind = "function" -> RmdirFunctions(m, {node.id})
           [] node.kind = "strings" ->
                 Log([m EXCEPT !.fs.strings = FALSE, !.fs.stringvals = EmptyFn],
                     Ev("rmdir", "strings", -1))

\* where a thread in disable goes on: the next listed node (links are unlinked
\* unchecked, directories pass is_dir() first), the next loop, the root
Advance(th) ==
    IF th.todo # <<>>
    THEN [th EXCEPT !.pc = IF Loops[th.loop] = "links" THEN "remove" ELSE "check"]
    ELSE IF th.loop < Len(Loops) THEN [th EXCEPT !.pc = "list", !.loop = @ + 1]
    ELSE [th EXCEPT !.pc = "root"]

\* thread t enters a call at position pc with the path it works on
Start(t, pc, p) ==
    [u \in Threads |->
        IF u = t
        THEN [IdleThread EXCEPT !.pc = pc, !.path = p,
                                !.raced = threads[t].raced
                                          \/ \E v \in Threads \ {t} : threads[v].pc # "idle"]
        ELSE IF threads[u].pc # "idle" THEN [threads[u] EXCEPT !.raced = TRUE]
        ELSE threads[u]]

\* thread t leaves its call with outcome e
Leave(t, e) == [IdleThread EXCEPT !.err = e, !.raced = threads[t].raced]

\* the state a step of thread t in disable leaves: an exception ends the call
TreeStep(t, m, th) ==
    /\ fs' = m.fs
    /\ devices' = m.devices
    /\ threads' = [threads EXCEPT ![t] = IF m.err # "none" THEN Leave(t, m.err) ELSE th]
    /\ UNCHANGED <<boot_device, path, last, ncalls, device_fds, open_fds,
                   last_received, hostq, hostlog, hostwrites, io>>

\* enable, called while no thread is in a call
ThreadEnable ==
    /\ ncalls < MaxOps
    /\ \A t \in Threads : threads[t].pc = "idle"
    /\ \E req \in {<<"KEYBOARD">>, <<"KEYBOARD", "MOUSE">>} :
           Returns(enable(Machine, req, 0, Controller), "enable", req, 0, Controller)

\* a thread calls disable()
DCall ==
    /\ ncalls < MaxOps
    /\ \E t \in Threads :
          /\ threads[t].pc = "idle"
          /\ threads' = Start(t, "unbind", NoPath)
    /\ ncalls' = ncalls + 1
    /\ UNCHANGED <<fs, devices, boot_device, path, last, device_fds, open_fds,
                   last_received, hostq, hostlog, hostwrites, io>>

\* lines 615-618
DUnbind ==
    \E t \in Threads :
       /\ threads[t].pc = "unbind"
       /\ TreeStep(t, Unbind(Machine), [threads[t] EXCEPT !.pc = "list", !.loop = 1])

\* the glob of a loop lists a directory
DList ==
    \E t \in Threads :
       /\ threads[t].pc = "list"
       /\ TreeStep(t, Machine,
                   Advance([threads[t] EXCEPT !.todo = Listed(fs, threads[t].loop)]))

\* if x.is_dir(): a directory that is gone is passed over
DCheck ==
    \E t \in Threads :
       /\ threads[t].pc = "check"
       /\ TreeStep(t, Machine,
                   IF Present(fs, Head(threads[t].todo))
                   THEN [threads[t] EXCEPT !.pc = "remove"]
                   ELSE Advance([threads[t] EXCEPT !.todo = Tail(@)]))

\* symlink.unlink() / x.rmdir()
DRemove ==
    \E t \in Threads :
       /\ threads[t].pc = "remove"
       /\ TreeStep(t, RemoveNode(Machine, Head(threads[t].todo)),
                   Advance([threads[t] EXCEPT !.todo = Tail(@)]))

\* lines 642-645
DRoot ==
    \E t \in Threads :
       /\ threads[t].pc = "root"
       /\ TreeStep(t, RemoveRoot(Machine), [threads[t] EXCEPT !.pc = "reset"])

\* line 646, and the return
DReset ==
    \E t \in Threads :
       /\ threads[t].pc = "reset"
       /\ TreeStep(t, ResetDevices(Machine), Leave(t, "none"))

TeardownNext ==
    ThreadEnable \/ DCall \/ DUnbind \/ DList \/ DCheck \/ DRemove \/ DRoot \/ DReset

SpecTeardown == Init /\ [][TeardownNext]_vars

----------------------------------------------------------------------------
(* send_report_nonblocking by two threads, lines 155-180, step by step *)

\* the lookup as it would be if it never found an entry
Lookup_Never(cache, p) == FALSE

\* line 135: if device_path in self._device_fds
Lookup(cache, p) == p \in DOMAIN cache

\* the state a step of thread t in send_report_nonblocking leaves
CacheStep(t, x, th) ==
    /\ device_fds' = x.device_fds
    /\ open_fds' = x.open_fds
    /\ threads' = [threads EXCEPT ![t] = th]
    /\ UNCHANGED <<fs, devices, boot_device, path, last, ncalls,
                   last_received, hostq, hostlog, hostwrites, io>>

\* lines 164-165: a thread calls send_report_nonblocking on an enabled device and
\* resolves the path
SCall ==
    /\ ncalls < MaxOps
    /\ \E t \in Threads, device \in Enabled :
          LET r == get_device_path(fs, device, OrFirst(device, None))
          IN /\ threads[t].pc = "idle"
             /\ threads' = IF r.err # "none"
                           THEN [threads EXCEPT ![t] = Leave(t, r.err)]
                           ELSE Start(t, "lookup", r.path)
    /\ ncalls' = ncalls + 1
    /\ UNCHANGED <<fs, devices, boot_device, path, last, device_fds, open_fds,
                   last_received, hostq, hostlog, hostwrites, io>>

\* lines 135-136: the cached descriptor, when there is one
SLookup ==
    \E t \in Threads :
       /\ threads[t].pc = "lookup"
       /\ CacheStep(t, Transport,
                    IF Lookup(device_fds, threads[t].path)
                    THEN [threads[t] EXCEPT !.pc = "write",
                                            !.fd = device_fds[threads[t].path]]
                    ELSE [threads[t] EXCEPT !.pc = "open"])

\* line 138: os.open; its failure goes through lines 175-180
SOpen ==
    \E t \in Threads :
       /\ threads[t].pc = "open"
       /\ IF NodeExists(fs, threads[t].path)
          THEN LET fd == FreeFd(open_fds)
               IN CacheStep(t,
                            [Transport EXCEPT !.open_fds =
                                [k \in (DOMAIN @) \cup {fd} |->
                                    IF k = fd THEN threads[t].path ELSE @[k]]],
                            [threads[t] EXCEPT !.pc = "store", !.fd = fd])
          ELSE CacheStep(t, close_fd(Transport, threads[t].path),
                         Leave(t, "FileNotFoundError"))

\* line 139: self._device_fds[device_path] = fd
SStore ==
    \E t \in Threads :
       /\ threads[t].pc = "store"
       /\ CacheStep(t,
                    [Transport EXCEPT !.device_fds =
                        [k \in (DOMAIN @) \cup {threads[t].path} |->
                            IF k = threads[t].path THEN threads[t].fd ELSE @[k]]],
                    [threads[t] EXCEPT !.pc = "write"])

\* lines 173-180: os.write and the except clause
SWrite ==
    \E t \in Threads, outcome \in WriteOutcomes :
       /\ threads[t].pc = "write"
       /\ IF outcome = "ok" THEN CacheStep(t, Transport, Leave(t, "none"))
          ELSE IF outcome = "EAGAIN"
          THEN CacheStep(t, Transport, Leave(t, "BlockingIOError"))
          ELSE CacheStep(t, close_fd(Transport, threads[t].path), Leave(t, "OSError"))

ThreadsNext == ThreadEnable \/ SCall \/ SLookup \/ SOpen \/ SStore \/ SWrite

SpecThreads == Init /\ [][ThreadsNext]_vars

----------------------------------------------------------------------------
(* Vocabulary of the claims *)

\* the report IDs the devices named in devs declare
ReportIdsOf(devs) == UNION {Range(Profile(devs[k]).report_ids) : k \in DOMAIN devs}

\* the device list an enable call is to work on: its argument after the override
Effective(call) == EffectiveDevices(call.devs, call.boot)

\* the call was an enable of a non-empty list that returned normally
EnabledOk(call) == call.op = "enable" /\ call.err = "none" /\ Len(call.devs) > 0

\* the rank of a teardown step in the order disable is to follow
TeardownRank(e) ==
    CASE e.op = "unbind" -> 0
      [] e.op = "unlink" -> 1
      [] e.op = "rmdir" /\ e.node = "cfgstrings" -> 2
      [] e.op = "rmdir" /\ e.node = "config" -> 3
      [] e.op = "rmdir" /\ e.node = "function" -> 4
      [] e.op = "rmdir" /\ e.node = "strings" -> 5
      [] e.op = "rmdir" /\ e.node = "root" -> 6
      [] OTHER -> 7

----------------------------------------------------------------------------
(* The claims *)

\* C1: every enable of a non-empty device list tears the old gadget down before it
\* builds: when enable(A) returned normally and the next call enable(B) returns
\* normally, A and B declaring disjoint report IDs, the tree holds function
\* directories and configuration links for B's report IDs only.
C1_TeardownBeforeBuild ==
    [][(/\ EnabledOk(last)
        /\ EnabledOk(last')
        /\ ReportIdsOf(Effective(last)) \cap ReportIdsOf(Effective(last')) = {})
       => /\ DOMAIN fs'.functions \subseteq ReportIdsOf(Effective(last'))
          /\ fs'.links \subseteq ReportIdsOf(Effective(last'))]_vars

\* C2: enable is idempotent on the tree: enable(D) called again right after
\* enable(D), with the same arguments and the same controllers listed, leaves the
\* tree the first call left.
C2_EnableIdempotent ==
    [][(/\ last.op = "enable"
        /\ last'.op = "enable"
        /\ last'.devs = last.devs
        /\ last'.boot = last.boot
        /\ last'.listing = last.listing)
       => fs' = fs]_vars

\* C3: this.devices is exactly the devices now enabled: after an enable of a
\* non-empty list that returned normally it is the effective device list of that
\* call, with nothing carried over from earlier calls, and after disable() it is
\* empty.
C3_DevicesAreTheEnabled ==
    /\ EnabledOk(last) => devices = Effective(last)
    /\ (last.op = "disable" /\ last.err = "none") => devices = <<>>

\* C4: whatever the devices argument, the empty list included, enable with
\* boot_device 1 (2) and a controller present ends bound with exactly the boot
\* keyboard (the boot mouse) enabled.
C4_BootDeviceAlone ==
    (last.op = "enable" /\ last.boot \in {1, 2} /\ last.listing # <<>>)
    => /\ last.err = "none"
       /\ fs.UDC # ""
       /\ devices = <<IF last.boot = 1 THEN BOOT_KEYBOARD.name ELSE BOOT_MOUSE.name>>
       /\ DOMAIN fs.functions = {0}

\* C5: enable with a boot_device outside {0, 1, 2} fails instead of completing.
C5_BootDeviceValidated ==
    (last.op = "enable" /\ last.boot \notin {0, 1, 2}) => last.err # "none"

\* C6: from every state, enable([]) with boot_device 0 returns normally and ends
\* where disable() ends from that state: no gadget root, no controller bound,
\* this.devices empty; and it creates nothing on the way.
C6_EnableEmptyIsDisable ==
    [][(last'.op = "enable" /\ last'.devs = <<>> /\ last'.boot = 0)
       => /\ last'.err = "none"
          /\ ~fs'.root /\ fs'.UDC = "" /\ devices' = <<>>
          /\ fs' = disable(Machine).fs
          /\ devices' = disable(Machine).devices
          /\ path' = disable(Machine).path
          /\ \A i \in DOMAIN last'.trace :
                 last'.trace[i].op \notin {"mkdir", "symlink", "bind"}]_vars

\* C6 witness: enable([]) called on a bound gadget, which it removed
C6_Witness ==
    /\ last.op = "enable" /\ last.devs = <<>> /\ last.boot = 0 /\ last.err = "none"
    /\ last.prev.op = "enable" /\ last.prev.err = "none"
    /\ \E i \in DOMAIN last.trace : last.trace[i].op = "unlink"
    /\ \E i \in DOMAIN last.trace : last.trace[i] = Ev("rmdir", "root", -1)
    /\ ~fs.root

\* C7: length arrays are broadcast: an enable, with a controller present, of a
\* device declaring several report IDs and one input length returns normally and
\* leaves a function directory for each report ID, its report_length that length.
C7_SingletonBroadcast ==
    (last.op = "enable" /\ last.boot = 0 /\ last.listing # <<>> /\ Len(last.devs) > 0)
    => \A k \in DOMAIN last.devs :
           LET d == Profile(last.devs[k])
           IN (Len(d.report_ids) > 1 /\ Len(d.in_report_lengths) = 1)
              => /\ last.err = "none"
                 /\ \A rid \in Range(d.report_ids) :
                        /\ rid \in DOMAIN fs.functions
                        /\ fs.functions[rid].report_length = d.in_report_lengths[1]

\* C8: after every enable that returned normally, every report ID of every enabled
\* device has a function directory and a link from the configuration to it, a
\* directory left by an earlier partial build included.
C8_EveryFunctionLinked ==
    EnabledOk(last)
    => \A rid \in ReportIdsOf(Effective(last)) :
           rid \in DOMAIN fs.functions /\ rid \in fs.links

\* C9: a failed enable is recoverable: disable() called on what a failed enable
\* left returns normally and leaves no gadget root, no controller bound and
\* this.devices empty.
C9_FailedEnableRecoverable ==
    (last.op = "disable" /\ last.prev.op = "enable" /\ last.prev.err # "none")
    => /\ last.err = "none"
       /\ fs = NoGadget
       /\ devices = <<>>

\* C9 witness: the first call was an enable that failed, so the gadget was never
\* bound, and the disable after it removed the function directories and the root
C9_Witness ==
    /\ ncalls = 2
    /\ last.op = "disable" /\ last.err = "none"
    /\ last.prev.op = "enable" /\ last.prev.err # "none"
    /\ \E i \in DOMAIN last.trace : last.trace[i].op = "rmdir" /\ last.trace[i].node = "function"
    /\ \E i \in DOMAIN last.trace : last.trace[i] = Ev("rmdir", "root", -1)
    /\ fs = NoGadget /\ devices = <<>>

\* C10: one disable() takes its steps in dependency order: the unbind, then the
\* links, then the configuration's string directories, then the configuration
\* directories, then the function directories, then the gadget's string
\* directories, the root last; no removal is refused for a child or link left.
C10_TeardownOrder ==
    last.op = "disable"
    => /\ last.err = "none"
       /\ \A i \in DOMAIN last.trace : TeardownRank(last.trace[i]) <= 6
       /\ \A i, j \in DOMAIN last.trace :
              i < j => TeardownRank(last.trace[i]) <= TeardownRank(last.trace[j])

\* C10 witness: a disable() that took a step of every kind
C10_Witness ==
    /\ last.op = "disable" /\ last.err = "none"
    /\ {TeardownRank(last.trace[i]) : i \in DOMAIN last.trace} = 0..6

\* C11: disable() is safe when there is no gadget: with no gadget root it returns
\* normally, touches and creates nothing and leaves this.devices empty; so a
\* disable() right after a disable() changes nothing.
C11_DisableWithoutGadget ==
    [][(last'.op = "disable" /\ (~fs.root \/ last.op = "disable"))
       => /\ last'.err = "none"
          /\ last'.trace = <<>>
          /\ fs' = NoGadget /\ fs' = fs
          /\ devices' = <<>>
          /\ path' = path]_vars

\* C11 witness: a disable() right after a disable(), no gadget there
C11_Witness ==
    /\ ncalls = 2
    /\ last.op = "disable" /\ last.err = "none" /\ last.trace = <<>>
    /\ last.prev.op = "disable" /\ last.prev.err = "none"
    /\ fs = NoGadget /\ devices = <<>>

----------------------------------------------------------------------------
(* Claims about the report transport *)

\* the descriptors of a descriptor table open on a path
OpenOn(open, p) == {fd \in DOMAIN open : open[fd] = p}

\* the reports the host has sent to a node
Received(n) == IF n \in DOMAIN hostlog THEN hostlog[n] ELSE {}

\* C12: after disable() returns, the handle cache has no entry and no handle that
\* send_report_nonblocking opened is still open
C12_HandlesReleasedOnDisable ==
    (last.op = "disable" /\ last.err = "none")
        => DOMAIN device_fds = {} /\ DOMAIN open_fds = {}

C14_WouldBlockKeepsHandle ==
    [][/\ last'.op = "send_report_nonblocking"
          => (last'.err = "BlockingIOError" <=> io'.outcome = "EAGAIN")
       /\ (last'.op = "send_report_nonblocking" /\ last'.err = "BlockingIOError")
          => /\ io'.path \in DOMAIN device_fds'
             /\ device_fds'[io'.path] = io'.fd
             /\ OpenOn(open_fds', io'.path) = {io'.fd}
             /\ ~io'.closed
       /\ (/\ last.op = "send_report_nonblocking" /\ last.err = "BlockingIOError"
           /\ last'.op = "send_report_nonblocking" /\ io'.path = io.path)
          => io'.reused /\ ~io'.opened /\ io'.fd = io.fd]_vars

\* C14 witness: the retry after a would-block went through on the cached handle
C14_Witness ==
    /\ last.op = "send_report_nonblocking" /\ last.err = "none"
    /\ last.prev.op = "send_report_nonblocking" /\ last.prev.err = "BlockingIOError"
    /\ io.reused /\ ~io.opened /\ io.wrote
    /\ OpenOn(open_fds, io.path) = {io.fd}

\* C15: after any sequence of send_report_nonblocking calls every open
\* non-blocking handle is the cache entry of its path and every cache entry is an
\* open handle on its path, so there is at most one per path; a handle is opened
\* only when its path has no cache entry
C15_HandleCache ==
    [][/\ \A fd \in DOMAIN open_fds' :
             /\ open_fds'[fd] \in DOMAIN device_fds'
             /\ device_fds'[open_fds'[fd]] = fd
       /\ \A p \in DOMAIN device_fds' :
             /\ device_fds'[p] \in DOMAIN open_fds'
             /\ open_fds'[device_fds'[p]] = p
       /\ \A p \in DOMAIN device_fds' : Cardinality(OpenOn(open_fds', p)) <= 1
       /\ (last'.op = "send_report_nonblocking" /\ io'.opened)
          => io'.path \notin DOMAIN device_fds]_vars

\* C15 witness: successful, would-block and failing calls are behind, and a call
\* has opened the one handle of its path anew
C15_Witness ==
    /\ last.op = "send_report_nonblocking" /\ io.opened
    /\ last.prev.op = "send_report_nonblocking" /\ last.prev.err = "OSError"
    /\ DOMAIN device_fds = {io.path} /\ OpenOn(open_fds, io.path) = {io.fd}

\* C16: send_report and send_report_nonblocking hand to the write the report ID
\* byte followed by the payload when the effective report ID is positive, and the
\* payload alone when it is 0: ID 3 with [0xAA, 0xBB] gives [0x03, 0xAA, 0xBB], ID 0
\* with [0xAA] gives [0xAA]
C16_Framing ==
    (last.op \in {"send_report", "send_report_nonblocking"} /\ io.outcome # "none")
        => /\ io.rid > 0 => io.frame = <<io.rid>> \o io.report
           /\ io.rid = 0 => io.frame = io.report
           /\ (io.rid = 3 /\ io.report = <<170, 187>>) => io.frame = <<3, 170, 187>>
           /\ (io.rid = 0 /\ io.report = <<170>>) => io.frame = <<170>>
           /\ io.rid >= 0
           /\ io.report_id = None => io.rid = Profile(io.dev).report_ids[1]
           /\ io.wrote <=> io.outcome = "ok"

\* C16 witness: send_report on the device with report ID 3 has written the
\* prefixed frame
C16_Witness ==
    /\ last.op = "send_report" /\ last.err = "none" /\ io.wrote
    /\ io.rid = 3 /\ io.report = <<170, 187>> /\ io.frame = <<3, 170, 187>>

\* C17: get_last_received_report on a device with a positive output-report
\* length returns None before any host write; when the host has written b, the
\* next call returns b and stores it in the device's cache; a call with no new
\* host data returns what the cache held
C17_LastReceivedReport ==
    [][(/\ last'.op = "get_last_received_report" /\ last'.err = "none"
        /\ Profile(io'.dev).out_report_lengths[1] > 0)
       => LET waiting == Pending(hostq, io'.path[2])
          IN /\ hostwrites = 0 => io'.ret = PyNone
             /\ waiting # <<>>
                => /\ io'.ret = Bytes(waiting[1])
                   /\ last_received'[io'.dev] = Bytes(waiting[1])
             /\ waiting = <<>>
                => /\ io'.ret = last_received[io'.dev]
                   /\ last_received' = last_received]_vars

\* C18: for every profile, those with output-report length 0 included, a
\* get_last_received_report made while the host has written no data leaves the
\* cache as it was, never populated, and returns None
C18_NoDataLeavesCache ==
    (last.op = "get_last_received_report" /\ last.err = "none" /\ hostwrites = 0)
        => /\ io.ret = PyNone
           /\ \A n \in DeviceNames : last_received[n] = PyNone

\* C19: on a device with several report IDs get_last_received_report(r) returns
\* a report the host sent to the node of r, whole, and never one it sent for
\* another report ID of the device
C19_ReportOfTheReportId ==
    (/\ last.op = "get_last_received_report" /\ last.err = "none"
     /\ Len(Profile(io.dev).report_ids) > 1
     /\ ~io.ret.none)
        => io.ret.data \in Received(io.path[2])

\* C20: get_device_path fails and returns no path whenever the gadget is not
\* bound to a controller (before enable, after disable, after an enable that
\* failed before binding) and whenever the report ID has no function of an
\* enabled device
C20_PathNeedsBoundGadget ==
    (/\ last.op = "get_device_path"
     /\ \/ fs.UDC = ""
        \/ io.rid \notin ReportIdsOf(devices)
        \/ io.rid \notin fs.links \cap DOMAIN fs.functions)
        => last.err # "none" /\ io.path = NoPath

----------------------------------------------------------------------------
(* Claims about the build and about what is left behind *)

RECURSIVE FlatIds(_)
\* the report IDs of the devices named in devs, in the order of the list and,
\* within a device, in the declared order
FlatIds(devs) ==
    IF devs = <<>> THEN <<>>
    ELSE Profile(Head(devs)).report_ids \o FlatIds(Tail(devs))

\* the place of the first x in s
FirstPos(s, x) == CHOOSE i \in DOMAIN s : s[i] = x /\ \A j \in 1..(i - 1) : s[j] # x

\* the node an event of a trace made is in the tree
Remains(e, tree) ==
    CASE e.op = "mkdir" /\ e.node = "root" -> tree.root
      [] e.op = "mkdir" /\ e.node = "config" -> tree.config
      [] e.op = "mkdir" /\ e.node = "function" -> e.id \in DOMAIN tree.functions
      [] e.op = "symlink" -> e.id \in tree.links
      [] OTHER -> TRUE

C24_CreationOrder ==
    EnabledOk(last)
        => LET ids == FlatIds(Effective(last))
           IN /\ fs.order # <<>>
              /\ fs.order[1] = ids[1]
              /\ \A i, j \in DOMAIN fs.order :
                    (/\ i < j
                     /\ fs.order[i] \in Range(ids)
                     /\ fs.order[j] \in Range(ids))
                    => FirstPos(ids, fs.order[i]) < FirstPos(ids, fs.order[j])

C28_OwnFunction ==
    (/\ EnabledOk(last)
     /\ \A i, j \in DOMAIN Effective(last) :
           i # j => Effective(last)[i] # Effective(last)[j])
        => /\ \A i, j \in DOMAIN Effective(last) :
                 i # j => path[Effective(last)[i]] # path[Effective(last)[j]]
           /\ \A i \in DOMAIN Effective(last) :
                 LET d == Profile(Effective(last)[i])
                 IN \A q \in DOMAIN d.report_ids :
                       /\ d.report_ids[q] \in DOMAIN fs.functions
                       /\ fs.functions[d.report_ids[q]].report_desc = d.descriptor
                       /\ fs.functions[d.report_ids[q]].report_length
                              = d.in_report_lengths[q]

\* C29: a device whose path is set is in this.devices of a bound gadget; after
\* disable() returns no device has a path
C29_PathOnlyWhileEnabled ==
    /\ \A n \in DeviceNames :
          path[n] # NoPath => (n \in Range(devices) /\ fs.UDC # "")
    /\ (last.op = "disable" /\ last.err = "none")
          => \A n \in DeviceNames : path[n] = NoPath

\* C21: whenever the process has ended, normally or not, no gadget tree and no
\* controller binding it made remain
C21_TeardownAtExit ==
    Exited => (~fs.root /\ fs.UDC = "" /\ fs = NoGadget)

\* C26: finalizing a Device leaves open and cached every handle on the path of
\* another Device
C26_CachePerDevice ==
    [][last'.op = "__del__"
       => \A n \in DeviceNames \ {io'.dev} :
             (path[n] \in DOMAIN device_fds /\ OpenOn(open_fds, path[n]) # {})
             => /\ path[n] \in DOMAIN device_fds'
                /\ device_fds'[path[n]] = device_fds[path[n]]
                /\ OpenOn(open_fds', path[n]) = OpenOn(open_fds, path[n])]_vars

\* C22: no removal step of disable fails because the node is already gone, a
\* second disable interleaved or not: no disable() call ends in
\* FileNotFoundError
C22_AbsentIsSwallowed ==
    \A t \in Threads : threads[t].err # "FileNotFoundError"

\* the paths that have an open descriptor
OpenPaths == {open_fds[fd] : fd \in DOMAIN open_fds}

\* C27: two handles are open on one path, one of them not in the cache, only
\* when send_report_nonblocking calls have run at the same time: with the calls
\* one after the other that state is not reached, with two threads it is
C27_LeakNeedsOverlap ==
    \A p \in OpenPaths :
        (\/ Cardinality(OpenOn(open_fds, p)) > 1
         \/ (/\ \A t \in Threads : threads[t].pc = "idle"
             /\ \E fd \in OpenOn(open_fds, p) :
                   p \notin DOMAIN device_fds \/ device_fds[p] # fd))
        => \E t \in Threads : threads[t].raced

\* C27 witness: both threads are back from send_report_nonblocking on one path,
\* two handles are open on it and the cache holds one
C27_Witness ==
    /\ \A t \in Threads : threads[t].pc = "idle" /\ threads[t].err = "none"
    /\ \E p \in OpenPaths :
          /\ Cardinality(OpenOn(open_fds, p)) = 2
          /\ p \in DOMAIN device_fds
          /\ device_fds[p] \in OpenOn(open_fds, p)

========================================================================
